---- MODULE Spec2Model ----
(***************************************************************************)
(* Personal Library Manager (src/app.py): a Streamlit page script over one *)
(* SQLite table, books(id, title, author, genre, year), read through the   *)
(* st.cache_data cache of get_books().                                     *)
(*                                                                         *)
(* Two specifications are given.  Spec drives the record access functions  *)
(* (add_book, get_books, update_book, delete_book) directly, with any      *)
(* arguments, as a caller or a test does.  SpecUI drives the page script:  *)
(* one action per page, each action one run of the script.                 *)
(*                                                                         *)
(* Text is a sequence of one-character strings.  A row of the table is a   *)
(* record [id, title, author, genre, year]; the table is the sequence of   *)
(* its rows in rowid order, which is the order SELECT * returns them in.   *)
(***************************************************************************)
EXTENDS Integers, Sequences, FiniteSets

VARIABLES
    books,      \* the rows of table books, in rowid order
    seq,        \* sqlite_sequence.seq of books: the largest rowid ever assigned
    cache,      \* the st.cache_data entry of get_books()
    open,       \* connections left open by calls that raised, holding no lock
    writer,     \* TRUE when a connection left open holds the write transaction
    last,       \* the last record access call: its arguments and its outcome
    ui,         \* the last run of the page script: its widgets and its output
    pre,        \* the rows of books before the last call or run
    seen        \* the ids of the rows that existed before the last call or run

vars == <<books, seq, cache, open, writer, last, ui, pre, seen>>

---------------------------------------------------------------------------
(* Bounds and input sets *)

MaxId == 2          \* Spec: add_book is called only while fewer ids were assigned
MaxUiId == 3        \* SpecUI: a submit adds a book only while fewer ids were assigned
MaxLeaked == 2      \* a call may raise only while fewer connections are left open

None == "None"

\* Arguments of the direct calls: two field tuples that differ in every field.
FieldTuples ==
    { [title |-> <<"d">>, author |-> <<"u">>, genre |-> "Fiction"],
      [title |-> <<"D", "u">>, author |-> <<".">>, genre |-> "Horror"] }

\* Years around both ends of the CHECK range.
Years == {999, 1000, 9999, 10000}

\* What the form of the Add and Update pages can hold at a submit: nothing,
\* all but one field, or every field.  The slider gives a year of its range.
Forms ==
    { [title |-> <<>>, author |-> <<>>, genre |-> None, year |-> 1000],
      [title |-> <<>>, author |-> <<"u">>, genre |-> "Fiction", year |-> 1000],
      [title |-> <<"d">>, author |-> <<>>, genre |-> "Fiction", year |-> 9999],
      [title |-> <<"d">>, author |-> <<"u">>, genre |-> None, year |-> 1000],
      [title |-> <<"d">>, author |-> <<"u">>, genre |-> "Fiction", year |-> 1000],
      [title |-> <<"D", "u">>, author |-> <<".">>, genre |-> "Horror", year |-> 9999] }

\* What the search box of the View page can hold.
Queries == {<<>>, <<"d">>, <<"d", "U">>, <<"u">>, <<".">>, <<"d", ".">>, <<"(">>}

---------------------------------------------------------------------------
(* The table *)

Ids(rows) == {rows[i].id : i \in 1..Len(rows)}

RowSet(rows) == {rows[i] : i \in 1..Len(rows)}

SetMax(S) == IF S = {} THEN 0 ELSE CHOOSE m \in S : \A x \in S : x <= m

\* CHECK(year >= 1000 AND year <= 9999)
CheckYear(year) == year >= 1000 /\ year <= 9999

\* id INTEGER PRIMARY KEY AUTOINCREMENT: one more than the largest rowid the
\* table ever held, which sqlite_sequence remembers across deletes.
NextRowid(rows, s) == SetMax(Ids(rows) \cup {s}) + 1

---------------------------------------------------------------------------
(* The record access functions, as functions of the store.  A store s is   *)
(* the program state a call works on plus what the call hands back: err    *)
(* ("ok", or the exception raised), ret (the value returned), and nsel and *)
(* nwr (the SELECTs and the writing statements executed so far).           *)

NoCache == [valid |-> FALSE, value |-> <<>>]

Store ==
    [books |-> books, seq |-> seq, cache |-> cache, open |-> open,
     writer |-> writer, err |-> "ok", ret |-> <<>>, nsel |-> 0, nwr |-> 0]

Leaked(s) == s.open + (IF s.writer THEN 1 ELSE 0)

\* a write that forgets to clear the cache
st_cache_data_kept(s) == s

\* st.cache_data.clear()
st_cache_data_clear(s) == [s EXCEPT !.cache = NoCache]

\* c.execute raised: conn.commit(), conn.close() and st.cache_data.clear() are
\* skipped.  The statement is rolled back.  A statement that failed its constraint
\* had started the write transaction, which the connection left open keeps.
Raise(s, e) ==
    IF e = "constraint"
    THEN [s EXCEPT !.err = e, !.writer = TRUE]
    ELSE [s EXCEPT !.err = e, !.open = @ + 1]

add_book(s, title, author, genre, year) ==
    LET st == [s EXCEPT !.nwr = @ + 1]
        row == [id |-> NextRowid(s.books, s.seq), title |-> title,
                author |-> author, genre |-> genre, year |-> year]
    IN  IF s.writer THEN Raise(st, "locked")
        ELSE IF ~CheckYear(year) THEN Raise(st, "constraint")
        ELSE st_cache_data_clear(
                [st EXCEPT !.books = Append(@, row), !.seq = row.id])

\* get_books without @st.cache_data: every call runs the SELECT
get_books_uncached(s) ==
    [s EXCEPT !.ret = s.books, !.nsel = @ + 1,
              !.cache = [valid |-> TRUE, value |-> s.books]]

get_books(s) ==
    IF s.cache.valid
    THEN [s EXCEPT !.ret = s.cache.value]
    ELSE [s EXCEPT !.ret = s.books, !.nsel = @ + 1,
                   !.cache = [valid |-> TRUE, value |-> s.books]]

delete_book(s, book_id) ==
    LET st == [s EXCEPT !.nwr = @ + 1]
        Keep(r) == r.id # book_id
    IN  IF s.writer THEN Raise(st, "locked")
        ELSE st_cache_data_clear([st EXCEPT !.books = SelectSeq(@, Keep)])

update_book(s, book_id, title, author, genre, year) ==
    LET st == [s EXCEPT !.nwr = @ + 1]
        Set(r) == IF r.id = book_id
                  THEN [r EXCEPT !.title = title, !.author = author,
                                 !.genre = genre, !.year = year]
                  ELSE r
    IN  IF s.writer THEN Raise(st, "locked")
        ELSE IF book_id \in Ids(s.books) /\ ~CheckYear(year) THEN Raise(st, "constraint")
        ELSE st_cache_data_clear(
                [st EXCEPT !.books = [i \in 1..Len(@) |-> Set(@[i])]])

---------------------------------------------------------------------------
(* State *)

NoCall ==
    [op |-> "none", id |-> 0, title |-> <<>>, author |-> <<>>, genre |-> None,
     year |-> 0, err |-> "ok", ret |-> <<>>, hit |-> FALSE, nstmt |-> 0]

NoRun ==
    [choice |-> "none", title |-> <<>>, author |-> <<>>, genre |-> None, year |-> 0,
     query |-> <<>>, book_id |-> 0, button |-> FALSE, msg |-> "none",
     shown |-> <<>>, hit |-> FALSE, drawn |-> FALSE, options |-> {},
     nsel |-> 0, nwr |-> 0]

\* init_db() has run: the table exists and is empty, nothing is cached.
Init ==
    /\ books = <<>>
    /\ seq = 0
    /\ cache = NoCache
    /\ open = 0
    /\ writer = FALSE
    /\ last = NoCall
    /\ ui = NoRun
    /\ pre = <<>>
    /\ seen = {}

\* The store a call or a run ends with becomes the state.
Commit(s) ==
    /\ books' = s.books
    /\ seq' = s.seq
    /\ cache' = s.cache
    /\ open' = s.open
    /\ writer' = s.writer
    /\ pre' = books
    /\ seen' = seen \cup Ids(books)

---------------------------------------------------------------------------
(* Spec: the record access functions called directly *)

Call(op, s, id, f, year) ==
    /\ s.err = "ok" \/ Leaked(Store) < MaxLeaked
    /\ Commit(s)
    /\ last' = [op |-> op, id |-> id, title |-> f.title, author |-> f.author,
                genre |-> f.genre, year |-> year, err |-> s.err, ret |-> s.ret,
                hit |-> (op = "get_books" /\ cache.valid), nstmt |-> s.nsel + s.nwr]
    /\ UNCHANGED ui

NoFields == [title |-> <<>>, author |-> <<>>, genre |-> None]

AddBook ==
    \E f \in FieldTuples, year \in Years :
        /\ seq < MaxId
        /\ Call("add_book", add_book(Store, f.title, f.author, f.genre, year), 0, f, year)

GetBooks == Call("get_books", get_books(Store), 0, NoFields, 0)

DeleteBook ==
    \E id \in 1..MaxId :
        Call("delete_book", delete_book(Store, id), id, NoFields, 0)

UpdateBook ==
    \E id \in 1..MaxId, f \in FieldTuples, year \in Years :
        Call("update_book", update_book(Store, id, f.title, f.author, f.genre, year),
             id, f, year)

\* The garbage collector finalizes connections that a raising call left open;
\* finalizing the one that holds the write transaction rolls it back.
Collect ==
    \E k \in 0..open, w \in BOOLEAN :
        /\ w => writer
        /\ k > 0 \/ w
        /\ open' = open - k
        /\ writer' = (writer /\ ~w)
        /\ UNCHANGED <<books, seq, cache, last, ui, pre, seen>>

Next == AddBook \/ GetBooks \/ DeleteBook \/ UpdateBook \/ Collect

Spec == Init /\ [][Next]_vars

---------------------------------------------------------------------------
(* Text *)

\* str.lower() on the letters used here
Lower(c) == CASE c = "D" -> "d" [] c = "U" -> "u" [] OTHER -> c

\* re.compile(pat): "(" opens a group that nothing here can close
re_compile_ok(pat) == \A k \in 1..Len(pat) : pat[k] # "("

\* one pattern character against one character, under re.IGNORECASE:
\* "." matches any character, a letter matches itself in either case
AtomMatches(p, c) == p = "." \/ Lower(p) = Lower(c)

\* re.compile(pat, flags=re.IGNORECASE).search(text) is not None
re_search(pat, text) ==
    \E i \in 0..(Len(text) - Len(pat)) :
        \A k \in 1..Len(pat) : AtomMatches(pat[k], text[i + k])

\* Series.str.contains(pat, case=False, na=False): regex=True is the default
str_contains(text, pat) == re_search(pat, text)

---------------------------------------------------------------------------
(* The page script.  Each section is a function of the store and of what   *)
(* the widgets hold; it gives the store the run ends with, the message     *)
(* reported, the rows displayed, whether the section drew its input        *)
(* widgets, and the options its selectbox offered.                         *)

Out(s, msg, shown, drawn, options) ==
    [s |-> s, msg |-> msg, shown |-> shown, drawn |-> drawn, options |-> options]

\* a validation that forgets the author
FieldsFilledButAuthor(title, author, genre) ==
    Len(title) > 0 /\ genre # None

\* if title and author and genre
FieldsFilled(title, author, genre) ==
    Len(title) > 0 /\ Len(author) > 0 /\ genre # None

\* A call that raised ends the run: Streamlit shows the exception.
Reported(s, msg, options) ==
    Out(s, IF s.err = "ok" THEN msg ELSE "exception", <<>>, TRUE, options)

HomeSection(s) == Out(s, "info", <<>>, FALSE, {})

AddBookSection(s, title, author, genre, year, button) ==
    IF ~button THEN Out(s, "none", <<>>, TRUE, {})
    ELSE IF FieldsFilled(title, author, genre)
         THEN Reported(add_book(s, title, author, genre, year), "success", {})
         ELSE Out(s, "warning", <<>>, TRUE, {})

ViewBooksSection(s, search_query) ==
    LET got == get_books(s)
        Hit(r) == str_contains(r.title, search_query) \/ str_contains(r.author, search_query)
    IN  IF got.ret = <<>> THEN Out(got, "warning", <<>>, FALSE, {})
        ELSE IF search_query = <<>> THEN Out(got, "table", got.ret, TRUE, {})
        ELSE IF ~re_compile_ok(search_query) THEN Out(got, "exception", <<>>, TRUE, {})
        ELSE Out(got, "table", SelectSeq(got.ret, Hit), TRUE, {})

\* f"{book[0]} - {book[1]}"
Label(book) == <<book.id, book.title>>

NoLabel == <<0, <<>>>>

\* {label: id for book in books}: a later book with the same label wins
book_dict(rows) ==
    [l \in {Label(rows[k]) : k \in 1..Len(rows)} |->
        rows[SetMax({k \in 1..Len(rows) : Label(rows[k]) = l})].id]

UpdateBookSection(s, selected_book, title, author, genre, year, button) ==
    LET got == get_books(s)
        book_id == book_dict(got.ret)[selected_book]
        options == DOMAIN book_dict(got.ret)
    IN  IF got.ret = <<>> THEN Out(got, "warning", <<>>, FALSE, {})
        ELSE IF ~button THEN Out(got, "none", <<>>, TRUE, options)
        ELSE IF FieldsFilled(title, author, genre)
             THEN Reported(update_book(got, book_id, title, author, genre, year),
                           "success", options)
             ELSE Out(got, "warning", <<>>, TRUE, options)

DeleteBookSection(s, selected_book, button) ==
    LET got == get_books(s)
        book_id == book_dict(got.ret)[selected_book]
        options == DOMAIN book_dict(got.ret)
    IN  IF got.ret = <<>> THEN Out(got, "warning", <<>>, FALSE, {})
        ELSE IF ~button THEN Out(got, "none", <<>>, TRUE, options)
        ELSE Reported(delete_book(got, book_id), "success", options)

\* df["Genre"].value_counts(): one row per genre, the larger count first,
\* equal counts in the order the genres first appear
value_counts(rows) ==
    LET G == {rows[k].genre : k \in 1..Len(rows)}
        Count(g) == Cardinality({k \in 1..Len(rows) : rows[k].genre = g})
        First(g) == CHOOSE k \in 1..Len(rows) :
                        rows[k].genre = g /\ \A j \in 1..(k - 1) : rows[j].genre # g
        Before(h, g) == Count(h) > Count(g) \/ (Count(h) = Count(g) /\ First(h) < First(g))
        Rank(g) == 1 + Cardinality({h \in G : Before(h, g)})
    IN  [n \in 1..Cardinality(G) |->
            LET g == CHOOSE x \in G : Rank(x) = n IN [genre |-> g, count |-> Count(g)]]

AnalyticsSection(s) ==
    LET got == get_books(s)
    IN  IF got.ret = <<>> THEN Out(got, "info", <<>>, FALSE, {})
        ELSE Out(got, "chart", value_counts(got.ret), FALSE, {})

---------------------------------------------------------------------------
(* SpecUI: the page script run once per interaction.  A widget holds what  *)
(* the user put in it only while the run before drew it: a click or a      *)
(* query needs the page drawn by the run before, and a selectbox whose     *)
(* value is no longer offered falls back to its first option.              *)

NoInput ==
    [title |-> <<>>, author |-> <<>>, genre |-> None, year |-> 0, query |-> <<>>,
     selected |-> NoLabel, button |-> FALSE]

\* a click on the button of a form that holds f
Submit(f) ==
    [NoInput EXCEPT !.title = f.title, !.author = f.author, !.genre = f.genre,
                    !.year = f.year, !.button = TRUE]

\* what get_books() gives the run that starts now
Listed == get_books(Store).ret

\* the run before drew the input widgets of this page
Drawn(choice) == ui.choice = choice /\ ui.drawn

\* what the selectbox of this page can hold in the run that starts now
Selectable(choice) ==
    {Label(Listed[1])} \cup
        (IF Drawn(choice) THEN ui.options \cap DOMAIN book_dict(Listed) ELSE {})

Run(choice, out, in) ==
    /\ out.s.seq <= MaxUiId
    /\ Commit(out.s)
    /\ ui' = [choice |-> choice, title |-> in.title, author |-> in.author,
              genre |-> in.genre, year |-> in.year, query |-> in.query,
              book_id |-> in.selected[1], button |-> in.button, msg |-> out.msg,
              shown |-> out.shown, hit |-> cache.valid, drawn |-> out.drawn,
              options |-> out.options, nsel |-> out.s.nsel, nwr |-> out.s.nwr]
    /\ UNCHANGED last

Home == Run("Home", HomeSection(Store), NoInput)

\* The Add page drawn, nothing submitted.
AddPage == Run("Add", AddBookSection(Store, <<>>, <<>>, None, 0, FALSE), NoInput)

AddSubmit ==
    /\ Drawn("Add")
    /\ \E f \in Forms :
            Run("Add", AddBookSection(Store, f.title, f.author, f.genre, f.year, TRUE),
                Submit(f))

\* The View page, the table empty: no search box is drawn.
ViewPageEmpty ==
    /\ Listed = <<>>
    /\ Run("View", ViewBooksSection(Store, <<>>), NoInput)

ViewPage ==
    /\ Listed # <<>>
    /\ \E query \in Queries :
            /\ query # <<>> => Drawn("View")
            /\ Run("View", ViewBooksSection(Store, query),
                   [NoInput EXCEPT !.query = query])

\* The Update page, the table empty: no widget is drawn.
UpdatePageEmpty ==
    /\ Listed = <<>>
    /\ Run("Update", UpdateBookSection(Store, NoLabel, <<>>, <<>>, None, 0, FALSE),
           NoInput)

UpdatePage ==
    /\ Listed # <<>>
    /\ \E selected \in Selectable("Update") :
            Run("Update",
                UpdateBookSection(Store, selected, <<>>, <<>>, None, 0, FALSE),
                [NoInput EXCEPT !.selected = selected])

UpdateSubmit ==
    /\ Listed # <<>>
    /\ Drawn("Update")
    /\ \E selected \in Selectable("Update"), f \in Forms :
            Run("Update",
                UpdateBookSection(Store, selected, f.title, f.author, f.genre, f.year, TRUE),
                [Submit(f) EXCEPT !.selected = selected])

\* The Delete page, the table empty: no widget is drawn.
DeletePageEmpty ==
    /\ Listed = <<>>
    /\ Run("Delete", DeleteBookSection(Store, NoLabel, FALSE), NoInput)

DeletePage ==
    /\ Listed # <<>>
    /\ \E selected \in Selectable("Delete") :
            Run("Delete", DeleteBookSection(Store, selected, FALSE),
                [NoInput EXCEPT !.selected = selected])

DeleteSubmit ==
    /\ Listed # <<>>
    /\ Drawn("Delete")
    /\ \E selected \in Selectable("Delete") :
            Run("Delete", DeleteBookSection(Store, selected, TRUE),
                [NoInput EXCEPT !.selected = selected, !.button = TRUE])

AnalyticsPage == Run("Analytics", AnalyticsSection(Store), NoInput)

NextUI ==
    \/ Home
    \/ AddPage
    \/ AddSubmit
    \/ ViewPageEmpty
    \/ ViewPage
    \/ UpdatePageEmpty
    \/ UpdatePage
    \/ UpdateSubmit
    \/ DeletePageEmpty
    \/ DeletePage
    \/ DeleteSubmit
    \/ AnalyticsPage

SpecUI == Init /\ [][NextUI]_vars

---------------------------------------------------------------------------
(* Properties of the record access functions, under Spec *)

WriteOps == {"add_book", "update_book", "delete_book"}

\* the row the last call was given, under the id it names
GivenRow(id) ==
    [id |-> id, title |-> last.title, author |-> last.author,
     genre |-> last.genre, year |-> last.year]

\* C1: the cache of get_books() never differs from the table, and what
\* get_books() returned is the table as it is, after any calls, failed ones
\* included: a read after a write sees the write.
CacheCoherent ==
    /\ cache.valid => cache.value = books
    /\ last.op = "get_books" => last.ret = books

\* C1, reached: a read served from the cache, after an add, a delete and a
\* write that failed.
CacheCoherentWitness ==
    /\ last.op = "get_books"
    /\ last.hit
    /\ last.ret # <<>>
    /\ Len(books) < seq
    /\ writer

\* C2: add_book with a year of the range leaves a row with the four values
\* given, under an id that no row has or ever had.
AddYieldsFreshRecord ==
    (last.op = "add_book" /\ CheckYear(last.year)) =>
        \E r \in RowSet(books) :
            /\ r = GivenRow(r.id)
            /\ r.id \notin seen \cup Ids(pre)

\* C3: add_book with a year outside [1000, 9999] fails with a constraint
\* violation and leaves the table as it was; with a year inside, 1000 and 9999
\* included, it succeeds and inserts the row.
YearRangeEnforced ==
    last.op = "add_book" =>
        IF last.year < 1000 \/ last.year > 9999
        THEN last.err = "constraint" /\ books = pre
        ELSE /\ last.err = "ok"
             /\ Len(books) = Len(pre) + 1
             /\ SubSeq(books, 1, Len(pre)) = pre
             /\ books[Len(books)] = GivenRow(books[Len(books)].id)

\* C4: delete_book of an id that add_book produced raises nothing and leaves
\* the table without that id, every other row present and unchanged; deleting
\* an id that is gone raises nothing and leaves the table as it was.
DeleteRemovesOnlyThatRow ==
    (last.op = "delete_book" /\ last.id \in seen \cup Ids(pre)) =>
        /\ last.err = "ok"
        /\ last.id \notin Ids(books)
        /\ RowSet(books) = {r \in RowSet(pre) : r.id # last.id}
        /\ Len(books) = Cardinality(RowSet(books))
        /\ last.id \notin Ids(pre) => books = pre

\* C5: update_book of an existing id with a year of the range leaves that row
\* with the four values given and the same id; the number of rows is unchanged
\* and every other row keeps its fields.
UpdateReplacesFields ==
    (last.op = "update_book" /\ last.id \in Ids(pre) /\ CheckYear(last.year)) =>
        /\ last.err = "ok"
        /\ Len(books) = Len(pre)
        /\ \A i \in 1..Len(pre) :
              books[i] = IF pre[i].id = last.id THEN GivenRow(last.id) ELSE pre[i]

\* C6: update_book of an id that no row has raises nothing, creates no row and
\* leaves every row unchanged.
UpdateMissingIsNoOp ==
    (last.op = "update_book" /\ last.id \notin Ids(pre)) =>
        last.err = "ok" /\ books = pre

\* C10: every call executes exactly one statement (get_books none when the
\* cache serves it) and no connection is open once the call is over, also
\* when the call failed.
ConnectionsReleased ==
    /\ Leaked(Store) = 0
    /\ last.op \in WriteOps => last.nstmt = 1
    /\ last.op = "get_books" => last.nstmt = (IF last.hit THEN 0 ELSE 1)

---------------------------------------------------------------------------
(* What the calls that did not find the database locked do *)

\* A successful add_book appends the row given under a fresh id, larger
\* than every id seen.
AddWhenUnlocked ==
    (last.op = "add_book" /\ last.err = "ok") =>
        /\ CheckYear(last.year)
        /\ books = Append(pre, GivenRow(seq))
        /\ \A i \in seen \cup Ids(pre) : i < seq

\* A failed call is a write and leaves the table as it was; it fails on its
\* constraint only with a year outside the range.
FailureLeavesTable ==
    last.err # "ok" =>
        /\ books = pre
        /\ last.op \in WriteOps
        /\ last.err = "constraint" =>
              /\ ~CheckYear(last.year)
              /\ last.op = "add_book" \/ (last.op = "update_book" /\ last.id \in Ids(pre))

\* A successful delete_book or update_book does what C4, C5 and C6 say.
WriteWhenUnlocked ==
    /\ (last.op = "delete_book" /\ last.err = "ok") =>
          /\ RowSet(books) = {r \in RowSet(pre) : r.id # last.id}
          /\ Len(books) = Cardinality(RowSet(books))
    /\ (last.op = "update_book" /\ last.err = "ok") =>
          /\ Len(books) = Len(pre)
          /\ \A i \in 1..Len(pre) :
                books[i] = IF pre[i].id = last.id THEN GivenRow(last.id) ELSE pre[i]
          /\ last.id \in Ids(pre) => CheckYear(last.year)

---------------------------------------------------------------------------
(* Properties of the page script, under SpecUI *)

\* C7: a submit on the Add or the Update page with the title empty, the
\* author empty or no genre selected reports a warning and writes nothing: the
\* table is as before; a write happens only with all three populated.
EmptyFieldMeansNoWrite ==
    /\ (/\ ui.choice \in {"Add", "Update"}
        /\ ui.button
        /\ (ui.title = <<>> \/ ui.author = <<>> \/ ui.genre = None)) =>
            ui.msg = "warning" /\ ui.nwr = 0 /\ books = pre
    /\ (ui.choice \in {"Add", "Update"} /\ ui.nwr > 0) =>
            ui.title # <<>> /\ ui.author # <<>> /\ ui.genre # None

\* C7, reached: a submit on the Update page of a table with a row, with only
\* the author missing.
EmptyFieldWitness ==
    /\ ui.choice = "Update"
    /\ ui.button
    /\ ui.title # <<>> /\ ui.author = <<>> /\ ui.genre # None
    /\ ui.msg = "warning"
    /\ books # <<>>

ContainsLiteral(text, query) ==
    \E i \in 0..(Len(text) - Len(query)) :
        \A k \in 1..Len(query) : Lower(text[i + k]) = Lower(query[k])

\* C9: the View page displays exactly the rows whose title or author contains
\* the query as a literal substring, case ignored, all rows when the query is
\* empty, and never changes the table.
ViewShowsLiteralMatches ==
    ui.choice = "View" =>
        /\ books = pre
        /\ LET Wanted(r) == \/ ui.query = <<>>
                            \/ ContainsLiteral(r.title, ui.query)
                            \/ ContainsLiteral(r.author, ui.query)
           IN  ui.shown = SelectSeq(books, Wanted)

====
